---- MODULE Spec2Model ----
(***************************************************************************)
(* Model of wf-dbg: the repaint-loop timeline viewer.                      *)
(*                                                                         *)
(*   src/src/ipc.rs   the socket reader (get_next_repait_loop_msg) and the *)
(*                    subscription stream that decodes frames to Messages  *)
(*   src/src/main.rs  RepaintLoop (the aggregator: handle_message, the     *)
(*                    identity tables, the pending/frozen buffers), the    *)
(*                    RepaintLoopApp glue (update, subscription) and draw  *)
(*                                                                         *)
(* Indices (usize) are 0-based as in the source; TLA+ sequences are        *)
(* 1-based, so a table lookup outputs[idx] is written outputs[idx + 1].    *)
(***************************************************************************)
EXTENDS Integers, Sequences, FiniteSets, TLC

VARIABLES
    repaint,          \* RepaintLoopApp.repaint : RepaintLoop
    sub,              \* the WayfireSocketRecipe stream kept by the runtime
    synced,           \* the runtime has applied subscription() since the last update
    socket,           \* the UnixStream behind RepaintLoopApp.socket
    wire,             \* the frame the reader got in the last step
    msg,              \* the Message update() handled in the last step
    started,          \* history: per output, the time of the last FrameRepaint
    past,             \* history: the order of the timestamps, an unknown event tag
    handled,          \* how many messages update() has handled
    crashed           \* the UI thread has panicked

vars == <<repaint, sub, synced, socket, wire, msg, started, past, handled, crashed>>

(***************************************************************************)
(* Program constants                                                       *)
(***************************************************************************)
MAX_TIME_PERIOD == 1000000000

\* The value a wrapped u64 subtraction lst - fst (lst < fst) stands for in
\* the model: 2^64 - (fst - lst) is above every timestamp difference the
\* model can form, so it is represented by the greatest model integer.
U64_WRAPPED == 2147483647

(***************************************************************************)
(* Bounds of the model                                                     *)
(***************************************************************************)
MaxTick == 2          \* timestamps are TimeStep, 2*TimeStep, .. MaxTick*TimeStep
MaxMessages == 3      \* update() handles at most this many messages
MaxIngest == 4        \* the same bound in the ingestion specification

TimeStep == MAX_TIME_PERIOD \div 2
Timestamps == {k * TimeStep : k \in 1..MaxTick}
OutputNames == {"DP-1", "DP-2"}
SurfaceIds == {42, 43}
SliderValues == {0, 1}

(***************************************************************************)
(* Shape (main.rs 20-45)                                                   *)
(***************************************************************************)
FrameBoundary(x, y) == [kind |-> "FrameBoundary", x |-> x, idx |-> y]
RepaintRegion(l, r, x) == [kind |-> "RepaintRegion", l |-> l, r |-> r, idx |-> x]
Commit(x, y) == [kind |-> "Commit", x |-> x, idx |-> y]

left(s) == IF s.kind = "RepaintRegion" THEN s.l ELSE s.x

right(s) == IF s.kind = "RepaintRegion" THEN s.r ELSE s.x

(***************************************************************************)
(* Message (message.rs 2-22)                                               *)
(***************************************************************************)
SurfaceCommit(id, output, time) ==
    [type |-> "SurfaceCommit", surface |-> id, output |-> output, time |-> time]
FrameStart(output, time) == [type |-> "FrameStart", output |-> output, time |-> time]
FrameRepaint(output, time) == [type |-> "FrameRepaint", output |-> output, time |-> time]
FrameRepaintDone(output, time) ==
    [type |-> "FrameRepaintDone", output |-> output, time |-> time]
Refresh == [type |-> "Refresh"]
SliderChanged(v) == [type |-> "SliderChanged", value |-> v]
PeriodicRefreshChanged(v) == [type |-> "PeriodicRefreshChanged", value |-> v]
NoMessage == [type |-> "None"]

(***************************************************************************)
(* RepaintLoop (main.rs 56-110)                                            *)
(***************************************************************************)
OutputState(name, t) == [name |-> name, last_repaint_start |-> t]
SurfaceState(index, oidx) == [index |-> index, output_idx |-> oidx]

\* iced Cache: empty, or the geometry recorded by the last draw, which is a
\* function of the buffer and the scroll offset it was drawn from.
CacheEmpty == [valid |-> FALSE, shapes |-> <<>>, index |-> 0]

RepaintLoop_new ==
    [drawn |-> CacheEmpty,
     shapes |-> <<>>,
     pending_shapes |-> <<>>,
     outputs |-> <<>>,
     surfaces |-> <<>>,
     index |-> 0,
     do_periodic_refresh |-> FALSE]

\* Iterator::position: 0-based index of the first match, -1 for None
OutputPosition(outputs, output) ==
    IF \E i \in 1..Len(outputs) : outputs[i].name = output
    THEN (CHOOSE i \in 1..Len(outputs) :
             /\ outputs[i].name = output
             /\ \A j \in 1..(i - 1) : outputs[j].name # output) - 1
    ELSE -1

SurfacePosition(surfaces, surface) ==
    IF \E i \in 1..Len(surfaces) : surfaces[i].index = surface
    THEN (CHOOSE i \in 1..Len(surfaces) :
             /\ surfaces[i].index = surface
             /\ \A j \in 1..(i - 1) : surfaces[j].index # surface) - 1
    ELSE -1

\* output_idx without the lookup: every call pushes an entry
output_idx_always_push(self, output) ==
    LET pushed == Append(self.outputs, OutputState(output, 0)) IN
    [self |-> [self EXCEPT !.outputs = pushed], idx |-> Len(pushed) - 1]

\* main.rs 112-122; returns the updated RepaintLoop and the index
output_idx(self, output) ==
    LET i == OutputPosition(self.outputs, output) IN
    IF i >= 0
    THEN [self |-> self, idx |-> i]
    ELSE LET pushed == Append(self.outputs, OutputState(output, 0)) IN
         [self |-> [self EXCEPT !.outputs = pushed], idx |-> Len(pushed) - 1]

\* surface_idx binding a known surface to the output named now
surface_idx_rebinds(self, surface, output) ==
    LET i == SurfacePosition(self.surfaces, surface)
        o == output_idx(self, output)
    IN  IF i >= 0
        THEN [self |-> [o.self EXCEPT !.surfaces[i + 1].output_idx = o.idx], idx |-> i]
        ELSE LET pushed == Append(o.self.surfaces, SurfaceState(surface, o.idx)) IN
             [self |-> [o.self EXCEPT !.surfaces = pushed], idx |-> Len(pushed) - 1]

\* surface_idx resolving the output before it looks the surface up
surface_idx_output_first(self, surface, output) ==
    LET o == output_idx(self, output)
        i == SurfacePosition(o.self.surfaces, surface)
    IN  IF i >= 0
        THEN [self |-> o.self, idx |-> i]
        ELSE LET pushed == Append(o.self.surfaces, SurfaceState(surface, o.idx)) IN
             [self |-> [o.self EXCEPT !.surfaces = pushed], idx |-> Len(pushed) - 1]

\* main.rs 124-135
surface_idx(self, surface, output) ==
    LET i == SurfacePosition(self.surfaces, surface) IN
    IF i >= 0
    THEN [self |-> self, idx |-> i]
    ELSE LET o == output_idx(self, output)
             pushed == Append(o.self.surfaces, SurfaceState(surface, o.idx))
         IN  [self |-> [o.self EXCEPT !.surfaces = pushed], idx |-> Len(pushed) - 1]

\* main.rs 137-141: lst - fst is a u64 subtraction
WindowUnderflows(self) ==
    /\ self.pending_shapes # <<>>
    /\ right(self.pending_shapes[Len(self.pending_shapes)]) < left(self.pending_shapes[1])

current_pending_window(self) ==
    LET fst == IF self.pending_shapes = <<>> THEN 0 ELSE left(self.pending_shapes[1])
        lst == IF self.pending_shapes = <<>> THEN 0
               ELSE right(self.pending_shapes[Len(self.pending_shapes)])
    IN  IF lst >= fst THEN lst - fst ELSE U64_WRAPPED

\* main.rs 145-149
HandleFrameStart(self, output, time) ==
    LET o == output_idx(self, output) IN
    [o.self EXCEPT !.pending_shapes = Append(@, FrameBoundary(time, o.idx))]

\* FrameRepaint recording the time in every output
HandleFrameRepaint_all_outputs(self, output, time) ==
    LET o == output_idx(self, output) IN
    [o.self EXCEPT !.outputs =
        [i \in 1..Len(o.self.outputs) |->
            [o.self.outputs[i] EXCEPT !.last_repaint_start = time]]]

\* main.rs 150-154
HandleFrameRepaint(self, output, time) ==
    LET o == output_idx(self, output) IN
    [o.self EXCEPT !.outputs[o.idx + 1].last_repaint_start = time]

\* FrameRepaintDone with the two ends of the region exchanged
HandleFrameRepaintDone_swapped(self, output, time) ==
    LET o == output_idx(self, output)
        start == o.self.outputs[o.idx + 1].last_repaint_start
    IN  [o.self EXCEPT !.pending_shapes = Append(@, RepaintRegion(time, start, o.idx))]

\* FrameRepaintDone reading the repaint start of the first output
HandleFrameRepaintDone_first_output(self, output, time) ==
    LET o == output_idx(self, output)
        start == o.self.outputs[1].last_repaint_start
    IN  [o.self EXCEPT !.pending_shapes = Append(@, RepaintRegion(start, time, o.idx))]

\* main.rs 155-160
HandleFrameRepaintDone(self, output, time) ==
    LET o == output_idx(self, output)
        start == o.self.outputs[o.idx + 1].last_repaint_start
    IN  [o.self EXCEPT !.pending_shapes = Append(@, RepaintRegion(start, time, o.idx))]

\* SurfaceCommit storing the surface id where the index belongs
HandleSurfaceCommit_stores_id(self, surface, output, time) ==
    LET s == surface_idx(self, surface, output) IN
    [s.self EXCEPT !.pending_shapes = Append(@, Commit(time, surface))]

\* main.rs 161-164
HandleSurfaceCommit(self, surface, output, time) ==
    LET s == surface_idx(self, surface, output) IN
    [s.self EXCEPT !.pending_shapes = Append(@, Commit(time, s.idx))]

\* a Refresh that clears only the displayed buffer
HandleRefresh_keeps_pending(self) ==
    [self EXCEPT !.shapes = <<>>]

\* main.rs 165-168
HandleRefresh(self) ==
    [self EXCEPT !.shapes = <<>>, !.pending_shapes = <<>>]

\* main.rs 171-174
HandleSliderChanged(self, idx) ==
    [self EXCEPT !.index = idx, !.drawn = CacheEmpty]

\* the toggle also dropping what is pending
HandlePeriodicRefreshChanged_clears(self, v) ==
    [self EXCEPT !.do_periodic_refresh = v, !.pending_shapes = <<>>]

\* main.rs 176-178
HandlePeriodicRefreshChanged(self, v) ==
    [self EXCEPT !.do_periodic_refresh = v]

\* main.rs 144-179: the match on the message
MatchMessage(self, message) ==
    CASE message.type = "FrameStart" ->
            HandleFrameStart(self, message.output, message.time)
      [] message.type = "FrameRepaint" ->
            HandleFrameRepaint(self, message.output, message.time)
      [] message.type = "FrameRepaintDone" ->
            HandleFrameRepaintDone(self, message.output, message.time)
      [] message.type = "SurfaceCommit" ->
            HandleSurfaceCommit(self, message.surface, message.output, message.time)
      [] message.type = "Refresh" ->
            HandleRefresh(self)
      [] message.type = "SliderChanged" ->
            HandleSliderChanged(self, message.value)
      [] message.type = "PeriodicRefreshChanged" ->
            HandlePeriodicRefreshChanged(self, message.value)

\* the freeze condition with > for >=
FreezeCondition_strict(self) ==
    self.shapes = <<>> /\ current_pending_window(self) > MAX_TIME_PERIOD

\* the freeze condition without the test that shapes is empty
FreezeCondition_refreeze(self) ==
    current_pending_window(self) >= MAX_TIME_PERIOD

\* main.rs 181: the condition of the freeze; && evaluates the window only
\* when shapes is empty
FreezeCondition(self) ==
    self.shapes = <<>> /\ current_pending_window(self) >= MAX_TIME_PERIOD

\* the freeze as a copy that leaves pending in place
Freeze_copy(self) ==
    [self EXCEPT !.shapes = self.pending_shapes, !.drawn = CacheEmpty]

\* main.rs 182-183: std::mem::swap and the cache clear
Freeze(self) ==
    [self EXCEPT !.shapes = self.pending_shapes,
                 !.pending_shapes = self.shapes,
                 !.drawn = CacheEmpty]

\* main.rs 143-186
handle_message(self, message) ==
    LET m == MatchMessage(self, message) IN
    IF FreezeCondition(m) THEN Freeze(m) ELSE m

\* The window subtraction at line 140 is reached with lst < fst: a build
\* with overflow checks (debug) panics there, a build without (release)
\* wraps.
handle_message_underflows(self, message) ==
    LET m == MatchMessage(self, message) IN
    m.shapes = <<>> /\ WindowUnderflows(m)

(***************************************************************************)
(* Wire frames (ipc.rs 15-37, 60-85)                                       *)
(***************************************************************************)
OutputFrame(event, object, timestamp) ==
    [category |-> "repaint-loop", event |-> event, object |-> object,
     timestamp |-> timestamp]
CommitFrame(object, output, timestamp) ==
    [category |-> "repaint-loop", event |-> "surface-commit", object |-> object,
     output |-> output, timestamp |-> timestamp]
\* a well-formed frame of another category, and a repaint-loop frame with an
\* event tag the stream does not know
OtherFrame ==
    [category |-> "view", event |-> "start-frame", object |-> "DP-1",
     timestamp |-> TimeStep]
UnknownFrame ==
    [category |-> "repaint-loop", event |-> "unknown-thing", object |-> "DP-1",
     timestamp |-> TimeStep]
NoFrame == [category |-> "none"]

OutputEvents == {"start-paint", "end-paint", "start-frame"}

Frames ==
    {OutputFrame(e, o, t) : e \in OutputEvents, o \in OutputNames, t \in Timestamps}
    \cup UNION {{CommitFrame(id, o, t) : id \in SurfaceIds, o \in OutputNames} :
                t \in Timestamps}
    \cup {OtherFrame, UnknownFrame}

\* serde_json Value::to_string of a JSON string: its JSON text, quotes included
JsonToString(v) == "\"" \o v \o "\""

\* the reader without the category test
IsRepaintLoop_any(frame) == TRUE

\* ipc.rs 27: the category test of get_next_repait_loop_msg
IsRepaintLoop(frame) == frame.category = "repaint-loop"

\* ipc.rs 69: the event tags the stream's match knows
KnownEvent(frame) == frame.event \in OutputEvents \cup {"surface-commit"}

\* ipc.rs 64-79: the stream closure's translation of a repaint-loop frame
Decode(frame) ==
    CASE frame.event = "start-paint" ->
            FrameRepaint(JsonToString(frame.object), frame.timestamp)
      [] frame.event = "end-paint" ->
            FrameRepaintDone(JsonToString(frame.object), frame.timestamp)
      [] frame.event = "start-frame" ->
            FrameStart(JsonToString(frame.object), frame.timestamp)
      [] frame.event = "surface-commit" ->
            SurfaceCommit(frame.object, JsonToString(frame.output), frame.timestamp)

(***************************************************************************)
(* History of the input, kept for the properties and read by no action:    *)
(*   seen     per output, the timestamp of its last event                  *)
(*   ordered  the events of each output came with non-decreasing           *)
(*            timestamps so far; seen is not followed once this is lost    *)
(*   unknown  the stream has met an event tag it does not know             *)
(***************************************************************************)
NoPast ==
    [seen |-> [o \in {JsonToString(n) : n \in OutputNames} |-> 0],
     ordered |-> TRUE,
     unknown |-> FALSE]

Remember(h, message) ==
    IF message.type \in {"FrameStart", "FrameRepaint", "FrameRepaintDone", "SurfaceCommit"}
    THEN IF h.ordered /\ message.time >= h.seen[message.output]
         THEN [h EXCEPT !.seen[message.output] = message.time]
         ELSE [h EXCEPT !.seen = NoPast.seen, !.ordered = FALSE]
    ELSE h

(***************************************************************************)
(* Initial state: RepaintLoopApp::new (main.rs 85-96)                      *)
(***************************************************************************)
Init ==
    /\ repaint = RepaintLoop_new
    /\ sub = "none"
    /\ synced = FALSE
    /\ socket = "boundary"
    /\ wire = NoFrame
    /\ msg = NoMessage
    /\ started = [o \in {JsonToString(n) : n \in OutputNames} |-> 0]
    /\ past = NoPast
    /\ handled = 0
    /\ crashed = FALSE

(***************************************************************************)
(* RepaintLoopApp::update (main.rs 201-204)                                *)
(***************************************************************************)
\* The message is handled by handle_message; where its window subtraction
\* underflows, the build decides between the panic and the wrapped value.
\* started is a history variable: it follows the FrameRepaint messages as
\* they are handled and is read by no action.
updateWithin(message, bound) ==
    /\ handled < bound
    /\ handled' = handled + 1
    /\ past' = Remember(past, message)
    /\ synced' = FALSE
    /\ msg' = message
    /\ started' = IF message.type = "FrameRepaint"
                  THEN [started EXCEPT ![message.output] = message.time]
                  ELSE started
    /\ \/ /\ handle_message_underflows(repaint, message)
          /\ repaint' = MatchMessage(repaint, message)
          /\ crashed' = TRUE
       \/ /\ repaint' = handle_message(repaint, message)
          /\ crashed' = FALSE

update(message) == updateWithin(message, MaxMessages)

\* a message from the widgets of view (main.rs 233-247)
UiMessages ==
    {Refresh} \cup {SliderChanged(v) : v \in SliderValues}
              \cup {PeriodicRefreshChanged(v) : v \in BOOLEAN}

UiUpdate ==
    /\ ~crashed
    /\ \E m \in UiMessages : update(m)
    /\ wire' = NoFrame
    /\ UNCHANGED <<sub, socket>>

\* the 3 second timer of subscription (main.rs 214-217)
TimerRefresh ==
    /\ ~crashed
    /\ repaint.do_periodic_refresh
    /\ update(Refresh)
    /\ wire' = NoFrame
    /\ UNCHANGED <<sub, socket>>

(***************************************************************************)
(* RepaintLoopApp::subscription (main.rs 206-220) as the runtime applies   *)
(* it: a recipe that is in the batch keeps or gets its stream, a recipe    *)
(* that is no longer in the batch has its stream dropped.                  *)
(***************************************************************************)
\* the gate with <= for <
Polling_inclusive(self) == current_pending_window(self) <= MAX_TIME_PERIOD

\* main.rs 209
Polling(self) == current_pending_window(self) < MAX_TIME_PERIOD

subscription ==
    /\ ~crashed
    /\ ~synced
    /\ \/ /\ WindowUnderflows(repaint)
          /\ crashed' = TRUE
          /\ UNCHANGED <<sub, synced>>
       \/ /\ crashed' = FALSE
          /\ synced' = TRUE
          /\ sub' = IF Polling(repaint)
                    THEN (IF sub = "none" THEN "len" ELSE sub)
                    ELSE "none"
    /\ wire' = NoFrame
    /\ msg' = NoMessage
    /\ UNCHANGED <<repaint, socket, started, past, handled>>

(***************************************************************************)
(* get_next_repait_loop_msg and the stream closure (ipc.rs 15-37, 60-85)   *)
(***************************************************************************)
\* the length read going on to the payload read after a failed read
ReadLength_ignores_error ==
    /\ ~crashed
    /\ sub = "len"
    /\ \/ socket = "boundary" /\ socket' = "in_frame" /\ sub' = "payload"
       \/ socket = "in_frame" /\ socket' = "desync" /\ sub' = "payload"
       \/ socket = "desync" /\ socket' = "desync" /\ sub' = "payload"
       \/ socket = "closed" /\ socket' = "closed" /\ sub' = "payload"
    /\ wire' = NoFrame
    /\ msg' = NoMessage
    /\ UNCHANGED <<repaint, synced, started, past, handled, crashed>>

\* ipc.rs 19: read_exact of the 4 byte length prefix
ReadLength ==
    /\ ~crashed
    /\ sub = "len"
    /\ \/ socket = "boundary" /\ socket' = "in_frame" /\ sub' = "payload"
       \/ socket = "in_frame" /\ socket' = "desync" /\ sub' = "payload"
       \/ socket = "desync" /\ socket' = "desync" /\ sub' = "payload"
       \/ socket = "closed" /\ socket' = "closed" /\ sub' = "ended"
    /\ wire' = NoFrame
    /\ msg' = NoMessage
    /\ UNCHANGED <<repaint, synced, started, past, handled, crashed>>

\* ipc.rs 23-31 with a frame of another category: continue
SkipFrame ==
    /\ ~crashed
    /\ sub = "payload" /\ socket = "in_frame"
    /\ \E f \in Frames :
          /\ ~IsRepaintLoop(f)
          /\ wire' = f
    /\ sub' = "len"
    /\ socket' = "boundary"
    /\ msg' = NoMessage
    /\ UNCHANGED <<repaint, synced, started, past, handled, crashed>>

\* ipc.rs 23-28, 63-79 with a repaint-loop frame: the Message is yielded and
\* update is called with it
DeliverFrom(frames, bound) ==
    /\ ~crashed
    /\ sub = "payload" /\ socket = "in_frame"
    /\ \E f \in frames :
          /\ IsRepaintLoop(f)
          /\ KnownEvent(f)
          /\ wire' = f
          /\ updateWithin(Decode(f), bound)
    /\ sub' = "len"
    /\ socket' = "boundary"

DeliverFrame == DeliverFrom(Frames, MaxMessages)

\* ipc.rs 78: panic!("Unknown event") in the stream's task.  The executor
\* the build runs the stream on decides what the panic ends: the task alone
\* (the stream is dead, the application goes on) or the process.
UnknownEvent ==
    /\ ~crashed
    /\ sub = "payload" /\ socket = "in_frame"
    /\ \E f \in Frames :
          /\ IsRepaintLoop(f)
          /\ ~KnownEvent(f)
          /\ wire' = f
    /\ sub' = "panicked"
    /\ crashed' \in BOOLEAN
    /\ socket' = "boundary"
    /\ past' = [past EXCEPT !.unknown = TRUE]
    /\ msg' = NoMessage
    /\ UNCHANGED <<repaint, synced, started, handled>>

\* ipc.rs 23 on a stream that lost its framing (24-25 unwrap) or ended (35)
ReadPayloadFails ==
    /\ ~crashed
    /\ sub = "payload"
    /\ \/ socket = "closed" /\ sub' = "ended"
       \/ socket = "desync" /\ sub' \in {"ended", "panicked"}
    /\ wire' = NoFrame
    /\ msg' = NoMessage
    /\ UNCHANGED <<repaint, synced, socket, started, past, handled, crashed>>

\* the peer closes the transport
Close ==
    /\ ~crashed
    /\ socket # "closed"
    /\ socket' = "closed"
    /\ wire' = NoFrame
    /\ msg' = NoMessage
    /\ UNCHANGED <<repaint, sub, synced, started, past, handled, crashed>>

(***************************************************************************)
(* RepaintLoop::draw (main.rs 270-406)                                     *)
(***************************************************************************)
Displayed(self) == IF self.shapes = <<>> THEN self.pending_shapes ELSE self.shapes

\* main.rs 288: *x - begin is a u64 subtraction, taken for every time of
\* every displayed shape
DrawUnderflows(self) ==
    LET shapes == Displayed(self)
        begin == IF shapes = <<>> THEN 0 ELSE left(shapes[1])
    IN  \E i \in 1..Len(shapes) : left(shapes[i]) < begin \/ right(shapes[i]) < begin

draw ==
    /\ ~crashed
    /\ ~repaint.drawn.valid
    /\ \/ /\ DrawUnderflows(repaint)
          /\ crashed' = TRUE
          /\ UNCHANGED repaint
       \/ /\ crashed' = FALSE
          /\ repaint' = [repaint EXCEPT !.drawn =
                            [valid |-> TRUE, shapes |-> Displayed(repaint),
                             index |-> repaint.index]]
    /\ wire' = NoFrame
    /\ msg' = NoMessage
    /\ UNCHANGED <<sub, synced, socket, started, past, handled>>

Next ==
    \/ UiUpdate
    \/ TimerRefresh
    \/ subscription
    \/ ReadLength
    \/ SkipFrame
    \/ DeliverFrame
    \/ UnknownEvent
    \/ ReadPayloadFails
    \/ Close
    \/ draw

Spec == Init /\ [][Next]_vars

(***************************************************************************)
(* The ingestion path alone, for runs of more messages: the stream carries *)
(* the end-paint events of one output (each of them can fill the window),  *)
(* frames of another category and unknown event tags; the only message of  *)
(* the widgets is Refresh.                                                 *)
(***************************************************************************)
IngestFrames ==
    {f \in Frames : f.category # "repaint-loop"
                     \/ (f.event \in {"end-paint", "unknown-thing"} /\ f.object = "DP-1")}

IngestRefresh ==
    /\ ~crashed
    /\ updateWithin(Refresh, MaxIngest)
    /\ wire' = NoFrame
    /\ UNCHANGED <<sub, socket>>

IngestDeliver == DeliverFrom(IngestFrames, MaxIngest)

NextIngest ==
    \/ IngestRefresh
    \/ subscription
    \/ ReadLength
    \/ SkipFrame
    \/ IngestDeliver
    \/ UnknownEvent
    \/ ReadPayloadFails
    \/ Close

SpecIngest == Init /\ [][NextIngest]_vars

(***************************************************************************)
(* Properties                                                              *)
(***************************************************************************)
\* a step in which update() handled the message msg' and returned
Handled == handled' = handled + 1 /\ ~crashed'

PushTypes == {"FrameStart", "FrameRepaintDone", "SurfaceCommit"}

\* the pending window of a buffer, as current_pending_window computes it
Window(buffer) == current_pending_window([pending_shapes |-> buffer])

\* C1: after handle_message has processed a message (it returned), frozen
\* is never empty while the pending window is >= MAX_TIME_PERIOD; and the step
\* moves pending to frozen exactly when, after the match on the message,
\* frozen is empty and the pending window is >= MAX_TIME_PERIOD.  The window
\* is the u64 value current_pending_window returns.
C1_FreezeTrigger ==
    /\ [](~crashed =>
            ~(repaint.shapes = <<>> /\ Window(repaint.pending_shapes) >= MAX_TIME_PERIOD))
    /\ [][Handled =>
            LET m == MatchMessage(repaint, msg')
                moved == /\ repaint'.shapes = m.pending_shapes
                         /\ repaint'.pending_shapes = m.shapes
                         /\ m.pending_shapes # m.shapes
                stayed == /\ repaint'.shapes = m.shapes
                          /\ repaint'.pending_shapes = m.pending_shapes
            IN  IF m.shapes = <<>> /\ Window(m.pending_shapes) >= MAX_TIME_PERIOD
                THEN moved ELSE stayed]_vars

\* a domain event has just frozen a pending window of exactly MAX_TIME_PERIOD
C1_Witness ==
    /\ ~crashed
    /\ msg.type \in PushTypes
    /\ repaint.pending_shapes = <<>>
    /\ repaint.shapes # <<>>
    /\ Window(repaint.shapes) = MAX_TIME_PERIOD

\* the shape a push message appends, given the message and the shape found
ShapeOf(message, s) ==
    CASE message.type = "FrameStart" -> s.kind = "FrameBoundary" /\ s.x = message.time
      [] message.type = "FrameRepaintDone" -> s.kind = "RepaintRegion" /\ s.r = message.time
      [] message.type = "SurfaceCommit" -> s.kind = "Commit" /\ s.x = message.time
      [] OTHER -> FALSE

\* C2: in a step where the freeze happens (frozen goes from empty to
\* non-empty), the new frozen buffer is the old pending buffer followed by the
\* shape of the triggering event, and the new pending buffer is empty.
C2_FreezeEffect ==
    [][(Handled /\ repaint.shapes = <<>> /\ repaint'.shapes # <<>>) =>
          /\ repaint'.pending_shapes = <<>>
          /\ Len(repaint'.shapes) = Len(repaint.pending_shapes) + 1
          /\ SubSeq(repaint'.shapes, 1, Len(repaint.pending_shapes)) = repaint.pending_shapes
          /\ ShapeOf(msg', repaint'.shapes[Len(repaint'.shapes)])]_vars

\* a freeze has just moved a buffer of two shapes
C2_Witness ==
    /\ ~crashed
    /\ msg.type \in PushTypes
    /\ repaint.pending_shapes = <<>>
    /\ Len(repaint.shapes) >= 2

\* C3: while frozen is non-empty, a step that is not the handling of a
\* Refresh leaves frozen unchanged, and the shape of a handled event is
\* appended to pending only.
C3_FrozenUntilRefresh ==
    [][(repaint.shapes # <<>> /\ msg'.type # "Refresh") =>
          /\ repaint'.shapes = repaint.shapes
          /\ IF Handled /\ msg'.type \in PushTypes
             THEN /\ Len(repaint'.pending_shapes) = Len(repaint.pending_shapes) + 1
                  /\ SubSeq(repaint'.pending_shapes, 1, Len(repaint.pending_shapes))
                        = repaint.pending_shapes
                  /\ ShapeOf(msg', repaint'.pending_shapes[Len(repaint'.pending_shapes)])
             ELSE repaint'.pending_shapes = repaint.pending_shapes]_vars

\* with frozen non-empty, events went on to fill pending up to a window that
\* reaches MAX_TIME_PERIOD again
C3_Witness ==
    /\ ~crashed
    /\ msg.type \in PushTypes
    /\ repaint.shapes # <<>>
    /\ repaint.pending_shapes # <<>>
    /\ Window(repaint.pending_shapes) >= MAX_TIME_PERIOD

\* C4: handling Refresh leaves frozen and pending both empty, from every
\* reachable state, and handling Refresh right after a Refresh changes
\* nothing of the RepaintLoop.
C4_RefreshIdempotent ==
    /\ [](~crashed =>
            LET once == handle_message(repaint, Refresh)
                twice == handle_message(once, Refresh)
            IN  once.shapes = <<>> /\ once.pending_shapes = <<>> /\ twice = once)
    /\ [][(handled' = handled + 1 /\ msg'.type = "Refresh") =>
            /\ ~crashed'
            /\ repaint'.shapes = <<>>
            /\ repaint'.pending_shapes = <<>>
            /\ (msg.type = "Refresh" => repaint' = repaint)]_vars

\* a Refresh has just discarded buffers that had been drawn
C4_Witness ==
    /\ msg.type = "Refresh"
    /\ repaint.drawn.valid
    /\ repaint.drawn.shapes # <<>>
    /\ repaint.shapes = <<>>
    /\ repaint.pending_shapes = <<>>

\* C5: once the runtime has applied subscription(), the socket stream exists
\* exactly when the pending window is below MAX_TIME_PERIOD; the window is at
\* or above MAX_TIME_PERIOD only in states where frozen is non-empty, and it
\* is below in the state right after a Refresh.
C5_SubscriptionGating ==
    ~crashed =>
       /\ synced => (sub # "none" <=> Window(repaint.pending_shapes) < MAX_TIME_PERIOD)
       /\ Window(repaint.pending_shapes) >= MAX_TIME_PERIOD => repaint.shapes # <<>>
       /\ msg.type = "Refresh" => Window(repaint.pending_shapes) < MAX_TIME_PERIOD

\* the stream has been dropped while frozen is displayed
C5_Witness ==
    /\ ~crashed
    /\ synced
    /\ sub = "none"
    /\ repaint.shapes # <<>>
    /\ Window(repaint.pending_shapes) >= MAX_TIME_PERIOD

\* the names and ids a message can carry
MessageOutputs == {JsonToString(n) : n \in OutputNames}

\* C6: no two entries of the output table share a name and no two entries of
\* the surface table share an id; a second call of output_idx / surface_idx
\* with the same name / id returns the same index and changes nothing; and
\* every step keeps the existing entries at their index (the tables grow by
\* appending only), so an index once returned for a name or id stays.
C6_IdentityStable ==
    /\ [](/\ \A i, j \in 1..Len(repaint.outputs) :
                repaint.outputs[i].name = repaint.outputs[j].name => i = j
          /\ \A i, j \in 1..Len(repaint.surfaces) :
                repaint.surfaces[i].index = repaint.surfaces[j].index => i = j
          /\ \A n \in MessageOutputs :
                LET first == output_idx(repaint, n)
                    again == output_idx(first.self, n)
                IN  again.idx = first.idx /\ again.self = first.self
          /\ \A id \in SurfaceIds : \A n \in MessageOutputs :
                LET first == surface_idx(repaint, id, n)
                IN  \A n2 \in MessageOutputs :
                       LET again == surface_idx(first.self, id, n2)
                       IN  again.idx = first.idx /\ again.self = first.self)
    /\ [][/\ Len(repaint'.outputs) >= Len(repaint.outputs)
          /\ \A i \in 1..Len(repaint.outputs) :
                repaint'.outputs[i].name = repaint.outputs[i].name
          /\ Len(repaint'.surfaces) >= Len(repaint.surfaces)
          /\ \A i \in 1..Len(repaint.surfaces) :
                repaint'.surfaces[i] = repaint.surfaces[i]]_vars

\* an event after a freeze resolved its output to the entry made before it
C6_Witness ==
    /\ msg.type \in {"FrameStart", "FrameRepaintDone"}
    /\ Len(repaint.outputs) = 1
    /\ repaint.shapes # <<>>
    /\ repaint.pending_shapes # <<>>

\* the buffers after a step that appended shape s: s went to pending, or the
\* freeze moved pending with s to frozen
Appended(s) ==
    LET p == Append(repaint.pending_shapes, s) IN
    IF ~crashed' /\ repaint.shapes = <<>> /\ Window(p) >= MAX_TIME_PERIOD
    THEN repaint'.shapes = p /\ repaint'.pending_shapes = <<>>
    ELSE repaint'.shapes = repaint.shapes /\ repaint'.pending_shapes = p

\* C7: a SurfaceCommit with an id that is not in the surface table appends
\* one SurfaceState, and one OutputState iff the named output is not in the
\* output table, and appends Commit(t, new surface index); a SurfaceCommit
\* with an id that is in the table changes neither table.
C7_SurfaceCommitTables ==
    [][(handled' = handled + 1 /\ msg'.type = "SurfaceCommit") =>
          LET known == \E i \in 1..Len(repaint.surfaces) :
                          repaint.surfaces[i].index = msg'.surface
              outputKnown == \E i \in 1..Len(repaint.outputs) :
                                repaint.outputs[i].name = msg'.output
          IN  IF known
              THEN /\ repaint'.surfaces = repaint.surfaces
                   /\ repaint'.outputs = repaint.outputs
              ELSE /\ repaint'.outputs =
                         IF outputKnown THEN repaint.outputs
                         ELSE Append(repaint.outputs, OutputState(msg'.output, 0))
                   /\ \E o \in 1..Len(repaint'.outputs) :
                         /\ repaint'.outputs[o].name = msg'.output
                         /\ repaint'.surfaces =
                               Append(repaint.surfaces, SurfaceState(msg'.surface, o - 1))
                   /\ Appended(Commit(msg'.time, Len(repaint.surfaces)))]_vars

\* a SurfaceCommit for a known surface has named an output that is in no
\* table entry
C7_Witness ==
    /\ msg.type = "SurfaceCommit"
    /\ \A i \in 1..Len(repaint.outputs) : repaint.outputs[i].name # msg.output
    /\ Len(repaint.surfaces) = 1

\* C8: FrameRepaint(o, t) appends no shape and records t in o's entry only;
\* FrameRepaintDone(o, t) appends RepaintRegion(s, t, idx(o)) with s the time
\* of the last FrameRepaint handled for o, 0 if there was none; FrameStart(o, t)
\* appends FrameBoundary(t, idx(o)); the shape goes to the end of pending, and
\* frozen stays as it is, unless the window reaches MAX_TIME_PERIOD.
C8_RepaintShapes ==
    [][(handled' = handled + 1
          /\ msg'.type \in {"FrameRepaint", "FrameRepaintDone", "FrameStart"}) =>
          LET o == msg'.output
              t == msg'.time
              idx == OutputPosition(repaint'.outputs, o)
          IN  /\ idx >= 0
              /\ Len(repaint'.outputs) =
                    Len(repaint.outputs) + (IF OutputPosition(repaint.outputs, o) < 0 THEN 1 ELSE 0)
              /\ repaint'.surfaces = repaint.surfaces
              /\ CASE msg'.type = "FrameRepaint" ->
                        /\ repaint'.shapes = repaint.shapes
                        /\ repaint'.pending_shapes = repaint.pending_shapes
                        /\ repaint'.outputs[idx + 1].last_repaint_start = t
                        /\ \A i \in 1..Len(repaint.outputs) :
                              i # idx + 1 => repaint'.outputs[i] = repaint.outputs[i]
                   [] msg'.type = "FrameRepaintDone" ->
                        Appended(RepaintRegion(started[o], t, idx))
                   [] msg'.type = "FrameStart" ->
                        Appended(FrameBoundary(t, idx))]_vars

\* scenario A: FrameStart, FrameRepaint and FrameRepaintDone of one output
\* below the threshold
C8_Witness ==
    /\ msg.type = "FrameRepaintDone"
    /\ repaint.shapes = <<>>
    /\ repaint.pending_shapes =
          <<FrameBoundary(TimeStep, 0), RepaintRegion(TimeStep, 2 * TimeStep, 0)>>

\* C9: handling PeriodicRefreshChanged(v) sets do_periodic_refresh to v and
\* changes nothing else of the RepaintLoop: not pending, frozen, the output
\* table or the surface table; it does not freeze.
C9_ToggleFrame ==
    [][(handled' = handled + 1 /\ msg'.type = "PeriodicRefreshChanged") =>
          /\ ~crashed'
          /\ repaint' = [repaint EXCEPT !.do_periodic_refresh = msg'.value]]_vars

\* the toggle was switched on with both buffers filled
C9_Witness ==
    /\ msg = PeriodicRefreshChanged(TRUE)
    /\ repaint.do_periodic_refresh
    /\ repaint.shapes # <<>>
    /\ repaint.pending_shapes # <<>>

\* C10: a frame of another category yields no message, leaves the RepaintLoop
\* as it is, and leaves the reader at the length read of the next frame.
C10_OtherCategorySkipped ==
    [][(wire' # NoFrame /\ wire'.category # "repaint-loop") =>
          /\ msg' = NoMessage
          /\ handled' = handled
          /\ repaint' = repaint
          /\ started' = started
          /\ crashed' = crashed
          /\ sub' = "len"]_vars

\* a frame of another category was skipped while shapes are pending
C10_Witness ==
    /\ wire.category = "view"
    /\ sub = "len"
    /\ msg = NoMessage
    /\ repaint.pending_shapes # <<>>

DomainTypes == {"FrameStart", "FrameRepaint", "FrameRepaintDone", "SurfaceCommit"}

\* C11: a repaint-loop frame with an event tag outside the known set yields
\* no message and changes nothing of the RepaintLoop, and once the stream
\* has met such a frame no domain event is delivered any more.
C11_UnknownTagFatal ==
    /\ [][(wire' # NoFrame /\ wire'.category = "repaint-loop"
             /\ wire'.event \notin {"start-paint", "end-paint", "start-frame",
                                    "surface-commit"}) =>
             /\ msg' = NoMessage
             /\ handled' = handled
             /\ repaint' = repaint]_vars
    /\ [][past.unknown => msg'.type \notin DomainTypes]_vars

\* C12: once the transport has ended it stays ended; a read of the length
\* prefix or of the payload then ends the stream and yields no event; no
\* domain event is delivered any more; and the buffers change only by a
\* Refresh.
C12_TransportEndTerminal ==
    [][socket = "closed" =>
          /\ socket' = "closed"
          /\ msg'.type \notin DomainTypes
          /\ (sub \in {"len", "payload"} /\ sub' \notin {sub, "none"}) => sub' = "ended"
          /\ (repaint'.shapes # repaint.shapes
                \/ repaint'.pending_shapes # repaint.pending_shapes) =>
                (msg'.type = "Refresh" /\ repaint'.shapes = <<>>
                    /\ repaint'.pending_shapes = <<>>)]_vars

\* the stream has ended on the closed transport with shapes in both buffers
C12_Witness ==
    /\ socket = "closed"
    /\ sub = "ended"
    /\ ~crashed
    /\ repaint.shapes # <<>>
    /\ repaint.pending_shapes # <<>>

\* every shape of the two buffers
AllShapes ==
    {repaint.shapes[i] : i \in 1..Len(repaint.shapes)}
    \cup {repaint.pending_shapes[i] : i \in 1..Len(repaint.pending_shapes)}

\* C13: as long as the events of each output come with non-decreasing
\* timestamps, a non-empty pending buffer has right(last) >= left(first): the
\* subtraction of current_pending_window does not underflow.
C13_WindowWellDefined ==
    (past.ordered /\ repaint.pending_shapes # <<>>) =>
        right(repaint.pending_shapes[Len(repaint.pending_shapes)])
            >= left(repaint.pending_shapes[1])

\* C14: every time of every shape of the displayed buffer, the start of a
\* RepaintRegion included, is >= begin, the left of the first displayed shape.
C14_BaselineLowerBound ==
    LET shapes == IF repaint.shapes = <<>> THEN repaint.pending_shapes
                  ELSE repaint.shapes
    IN  \A i \in 1..Len(shapes) :
           left(shapes[i]) >= left(shapes[1]) /\ right(shapes[i]) >= left(shapes[1])

\* C15: the framing of the byte stream is kept across the stopping and
\* starting of the stream: a length prefix is consumed only by a stream that
\* goes on to read its payload, and every length read starts at a frame
\* boundary, so no frame is lost or split.
C15_FramingPreserved ==
    /\ socket # "desync"
    /\ socket = "in_frame" => sub = "payload"

\* C16: a valid render cache was drawn from the buffer that is displayed now
\* and from the scroll offset that is set now.
C16_CacheNeverStale ==
    repaint.drawn.valid =>
        /\ repaint.drawn.shapes =
              (IF repaint.shapes = <<>> THEN repaint.pending_shapes ELSE repaint.shapes)
        /\ repaint.drawn.index = repaint.index

\* C17: as long as the events of each output come with non-decreasing
\* timestamps, every RepaintRegion in pending or frozen has end >= start.
C17_RegionOrdered ==
    past.ordered => \A s \in AllShapes : s.kind = "RepaintRegion" => s.r >= s.l

\* a freeze came between the FrameRepaint of an output and its
\* FrameRepaintDone, which used the recorded start
C17_Witness ==
    /\ past.ordered
    /\ ~crashed
    /\ msg.type = "FrameRepaintDone"
    /\ repaint.shapes # <<>>
    /\ repaint.pending_shapes # <<>>
    /\ repaint.pending_shapes[Len(repaint.pending_shapes)].kind = "RepaintRegion"
    /\ repaint.pending_shapes[Len(repaint.pending_shapes)].l > 0

\* C18: the last_repaint_start of an output entry changes only in the
\* handling of a FrameRepaint that names this output, and then to its time.
C18_RepaintStartFrame ==
    [][\A i \in 1..Len(repaint.outputs) :
          repaint'.outputs[i].last_repaint_start # repaint.outputs[i].last_repaint_start =>
             /\ handled' = handled + 1
             /\ msg'.type = "FrameRepaint"
             /\ msg'.output = repaint.outputs[i].name
             /\ repaint'.outputs[i].last_repaint_start = msg'.time]_vars

\* a Refresh has been handled and a recorded repaint start is still there
C18_Witness ==
    /\ msg.type = "Refresh"
    /\ \E i \in 1..Len(repaint.outputs) : repaint.outputs[i].last_repaint_start > 0
    /\ Len(repaint.outputs) = 2

\* C19: the output_idx of a surface entry never changes, and a SurfaceCommit
\* for a known id appends a Commit with the index the id already has,
\* whatever output it names.
C19_SurfaceBindingFixed ==
    [][/\ \A i \in 1..Len(repaint.surfaces) :
             repaint'.surfaces[i].output_idx = repaint.surfaces[i].output_idx
       /\ (handled' = handled + 1 /\ msg'.type = "SurfaceCommit"
             /\ \E i \in 1..Len(repaint.surfaces) :
                   repaint.surfaces[i].index = msg'.surface) =>
             \E i \in 1..Len(repaint.surfaces) :
                /\ repaint.surfaces[i].index = msg'.surface
                /\ Appended(Commit(msg'.time, i - 1))]_vars

\* a SurfaceCommit for a known surface has named another output of the table
\* than the one the surface is bound to
C19_Witness ==
    /\ msg.type = "SurfaceCommit"
    /\ \E i \in 1..Len(repaint.surfaces) : \E o \in 1..Len(repaint.outputs) :
          /\ repaint.surfaces[i].index = msg.surface
          /\ repaint.outputs[o].name = msg.output
          /\ repaint.surfaces[i].output_idx # o - 1

\* C20: every FrameBoundary and RepaintRegion of the two buffers carries an
\* index below outputs.len(), every Commit an index below surfaces.len(), and
\* every SurfaceState an output_idx below outputs.len().
C20_IndexValid ==
    /\ \A s \in AllShapes :
          /\ s.idx >= 0
          /\ s.kind \in {"FrameBoundary", "RepaintRegion"} => s.idx < Len(repaint.outputs)
          /\ s.kind = "Commit" => s.idx < Len(repaint.surfaces)
    /\ \A i \in 1..Len(repaint.surfaces) :
          /\ repaint.surfaces[i].output_idx >= 0
          /\ repaint.surfaces[i].output_idx < Len(repaint.outputs)

\* a Commit was appended after a freeze, with both tables filled
C20_Witness ==
    /\ repaint.shapes # <<>>
    /\ repaint.pending_shapes # <<>>
    /\ repaint.pending_shapes[Len(repaint.pending_shapes)].kind = "Commit"
    /\ Len(repaint.outputs) = 2

====
